---- MODULE Spec2Model ----
(***************************************************************************)
(* Model of experiment.py of the decision-transformer experiment driver:   *)
(*   - the load loop (delayed-reward transform, discount_cumsum, per-path  *)
(*     statistics),                                                        *)
(*   - the top-pct_traj trajectory selection and its sampling weights,     *)
(*   - get_batch (weighted trajectory draw, random window, right-aligned   *)
(*     copy, padding),                                                     *)
(*   - eval_ep_parallel (the lock-step evaluation loop).                   *)
(*                                                                         *)
(* numpy arrays are functions over 0..(n-1), so indices are the code's.    *)
(* The tensors the evaluation loop grows with tf.concat are sequences:     *)
(* element k of a sequence is the code's index k-1.  Real numbers that the *)
(* code obtains by a division are rationals <<numerator, denominator>>.    *)
(* Observation vectors are opaque tokens; state normalisation is outside   *)
(* the model.                                                              *)
(***************************************************************************)
EXTENDS Integers, Sequences, FiniteSets, TLC

VARIABLES
    pc,                  \* position in the program
    mode,                \* variant['mode']
    \* ---- load loop
    path,                \* the trajectory record the load loop last processed
    dc,                  \* arguments and result of the last discount_cumsum call
    \* ---- selection (setup of experiment())
    trajectories,        \* the loaded dataset
    traj_lens,
    traj_total_return,
    pct_traj,
    num_timesteps,
    sorted_return_inds,
    num_trajectories,
    p_sample,
    \* ---- get_batch
    batch,
    \* ---- eval_ep_parallel
    target_rew,
    dones,
    states,
    actions,
    rewards,
    target_returns,
    timesteps,
    episode_return,
    episode_length,
    t,                   \* number of loop iterations executed
    step_last,           \* per episode, the raw terminal signal of every step
    model_in,            \* arguments of the last model.get_batch_action call
    result

vars == <<pc, mode, path, dc, trajectories, traj_lens, traj_total_return,
          pct_traj, num_timesteps, sorted_return_inds, num_trajectories,
          p_sample, batch, target_rew, dones, states, actions, rewards,
          target_returns, timesteps, episode_return, episode_length, t,
          step_last, model_in, result>>

loadVars == <<path, dc>>
selectVars == <<trajectories, traj_lens, traj_total_return, pct_traj,
                num_timesteps, sorted_return_inds, num_trajectories, p_sample>>
batchVars == <<batch>>
evalVars == <<target_rew, dones, states, actions, rewards, target_returns,
              timesteps, episode_return, episode_length, t, step_last,
              model_in, result>>

(***************************************************************************)
(* Bounds of the model.                                                    *)
(***************************************************************************)
MaxPathLen == 3          \* longest reward series the load loop is given
MaxReward == 3           \* rewards of a loaded path are in -1..MaxReward
MaxTraj == 3             \* most trajectories in a dataset given to the selection
MaxBatchTraj == 2        \* most trajectories in a dataset given to get_batch
MaxTrajLen == 3          \* longest trajectory in a dataset given to get_batch
MaxBatch == 2            \* largest batch_size
MaxK == 3                \* largest max_len
num_eval_episodes == 2   \* episodes evaluated in lock step
max_ep_len == 3          \* cap on the steps of the evaluation loop

None == "none"

Modes == {"normal", "delayed"}

(***************************************************************************)
(* Arrays and rationals.                                                   *)
(***************************************************************************)
Min(a, b) == IF a <= b THEN a ELSE b

Max(a, b) == IF a >= b THEN a ELSE b

ArrLen(x) == Cardinality(DOMAIN x)

Arrays(S, maxLen) == UNION {[0..(n - 1) -> S] : n \in 1..maxLen}

RECURSIVE ArrSumTo(_, _)
ArrSumTo(x, n) == IF n <= 0 THEN 0 ELSE ArrSumTo(x, n - 1) + x[n - 1]

\* ndarray.sum()
ArrSum(x) == ArrSumTo(x, ArrLen(x))

\* the sum of f over the set S of arguments
RECURSIVE SumOver(_, _)
SumOver(f, S) ==
    IF S = {} THEN 0
    ELSE LET e == CHOOSE x \in S : TRUE
         IN  f[e] + SumOver(f, S \ {e})

\* the array with the elements of the sequence q
Arr(q) == [i \in 0..(Len(q) - 1) |-> q[i + 1]]

Range(f) == {f[x] : x \in DOMAIN f}

\* a / b, kept exact
Rat(a, b) == <<a, b>>

RatEq(p, q) == p[1] * q[2] = q[1] * p[2]

\* p - q, on the common denominator when the two already share one
RatSub(p, q) ==
    IF p[2] = q[2] THEN <<p[1] - q[1], p[2]>>
    ELSE <<p[1] * q[2] - q[1] * p[2], p[2] * q[2]>>

(***************************************************************************)
(* discount_cumsum, experiment.py lines 20-25.                             *)
(***************************************************************************)
\* seeded fault: the recurrence reads the input instead of the running result
CumsumLoopNoCarry(x, gamma, out, k) ==
    [i \in DOMAIN out |-> IF i <= k THEN x[i] + gamma * x[i + 1] ELSE out[i]]

\* for t in reversed(range(x.shape[0]-1)), entered with t = k
RECURSIVE CumsumLoop(_, _, _, _)
CumsumLoop(x, gamma, out, k) ==
    IF k < 0 THEN out
    ELSE CumsumLoop(x, gamma, [out EXCEPT ![k] = x[k] + gamma * out[k + 1]], k - 1)

discount_cumsum(x, gamma) ==
    LET L == ArrLen(x)
        zeros == [i \in 0..(L - 1) |-> 0]
        last == [zeros EXCEPT ![L - 1] = x[L - 1]]
    IN  CumsumLoop(x, gamma, last, L - 2)

(***************************************************************************)
(* The load loop, experiment.py lines 86-99.                               *)
(***************************************************************************)
\* seeded fault: the two assignments of the delayed transform in the other order
DelayedRewardsZeroFirst(r) ==
    LET L == ArrLen(r)
        zeroed == [i \in 0..(L - 1) |-> IF i < L - 1 THEN 0 ELSE r[i]]
    IN  [zeroed EXCEPT ![L - 1] = ArrSum(zeroed)]

\* path['rewards'][-1] = path['rewards'].sum(); path['rewards'][:-1] = 0.
DelayedRewards(r) ==
    LET L == ArrLen(r)
        summed == [r EXCEPT ![L - 1] = ArrSum(r)]
    IN  [i \in 0..(L - 1) |-> IF i < L - 1 THEN 0 ELSE summed[i]]

\* one iteration of "for path in trajectories" on the raw record p
LoadedPath(p, m) ==
    LET rw == IF m = "delayed" THEN DelayedRewards(p.rewards) ELSE p.rewards
    IN  [observations |-> p.observations,
         actions |-> p.actions,
         rewards |-> rw,
         dones |-> p.terminals,
         rtg |-> discount_cumsum(rw, 1)]

TrajLen(p) == ArrLen(p.observations)

TotalReturn(p) == ArrSum(p.rewards)

\* a raw dataset record: rewards r, the other fields position tokens
RawPath(j, r) ==
    LET L == ArrLen(r)
    IN  [observations |-> [i \in 0..(L - 1) |-> <<"obs", j, i>>],
         actions |-> [i \in 0..(L - 1) |-> 10 * j + i + 1],
         rewards |-> r,
         terminals |-> [i \in 0..(L - 1) |-> i = L - 1]]

RewardSeries == Arrays(-1..MaxReward, MaxPathLen)

Gammas == {0, 1, 2}

NoSelection ==
    /\ trajectories = None
    /\ traj_lens = None
    /\ traj_total_return = None
    /\ pct_traj = None
    /\ num_timesteps = None
    /\ sorted_return_inds = None
    /\ num_trajectories = None
    /\ p_sample = None

NoEval ==
    /\ target_rew = None
    /\ dones = None
    /\ states = None
    /\ actions = None
    /\ rewards = None
    /\ target_returns = None
    /\ timesteps = None
    /\ episode_return = None
    /\ episode_length = None
    /\ t = None
    /\ step_last = None
    /\ model_in = None
    /\ result = None

\* the dataset holds one raw path; discount_cumsum is about to be called on
\* its rewards
InitLoad ==
    /\ pc = "raw"
    /\ mode \in Modes
    /\ \E r \in RewardSeries : path = RawPath(0, r)
    /\ \E g \in Gammas : dc = [x |-> path.rewards, gamma |-> g, out |-> None]
    /\ batch = None
    /\ NoSelection
    /\ NoEval

\* lines 88-99 for one path
LoadPath ==
    /\ pc = "raw"
    /\ pc' = "loaded"
    /\ LET p == LoadedPath(path, mode)
       IN  /\ path' = [raw |-> path.rewards,
                       loaded |-> p,
                       traj_len |-> TrajLen(p),
                       total_return |-> TotalReturn(p)]
           /\ dc' = [x |-> p.rewards, gamma |-> 1, out |-> p.rtg]
    /\ UNCHANGED <<mode, selectVars, batchVars, evalVars>>

\* a call discount_cumsum(x, gamma)
DiscountCumsum ==
    /\ pc = "raw"
    /\ pc' = "called"
    /\ dc' = [dc EXCEPT !.out = discount_cumsum(dc.x, dc.gamma)]
    /\ UNCHANGED <<mode, path, selectVars, batchVars, evalVars>>

NextLoad == LoadPath \/ DiscountCumsum

SpecLoad == InitLoad /\ [][NextLoad]_vars

(***************************************************************************)
(* Trajectory selection and sampling weights, experiment.py lines 120-139. *)
(***************************************************************************)
\* pct_traj as numerator and denominator; quarters are exact in binary
\* floating point, so pct_traj*num_timesteps is computed exactly
PctValues == {<<1, 4>>, <<1, 2>>, <<3, 4>>, <<1, 1>>}

LenValues == {1, 2, 5}

ReturnValues == {0, 5, 10}

\* max(int(pct_traj*num_timesteps), 1)
Budget(pct, n) == Max((pct[1] * n) \div pct[2], 1)

\* np.argsort(ret): an ordering of the indices by ascending value; the
\* order among equal values is the sort implementation's
ArgsortResults(ret) ==
    {p \in [DOMAIN ret -> DOMAIN ret] :
        /\ \A i, j \in DOMAIN ret : i # j => p[i] # p[j]
        /\ \A i, j \in DOMAIN ret : i < j => ret[p[i]] <= ret[p[j]]}

\* seeded fault: a trajectory that exactly fills the budget is refused
WalkCondStrict(lens, sorted, budget, steps, ind) ==
    /\ ind >= 0
    /\ steps + lens[sorted[ind]] < budget

\* seeded fault: the budget test dropped from the loop condition
WalkCondNoBudget(lens, sorted, budget, steps, ind) == ind >= 0

\* ind >= 0 and timesteps + traj_lens[sorted_return_inds[ind]] <= num_timesteps
WalkCond(lens, sorted, budget, steps, ind) ==
    /\ ind >= 0
    /\ steps + lens[sorted[ind]] <= budget

\* the while loop of lines 128-131; its value is num_trajectories
RECURSIVE Walk(_, _, _, _, _, _)
Walk(lens, sorted, budget, steps, num, ind) ==
    IF WalkCond(lens, sorted, budget, steps, ind)
    THEN Walk(lens, sorted, budget, steps + lens[sorted[ind]], num + 1, ind - 1)
    ELSE num

\* lines 125-131
NumSelected(lens, sorted, budget) ==
    LET n == ArrLen(lens)
    IN  Walk(lens, sorted, budget, lens[sorted[n - 1]], 1, n - 2)

\* a[-k:]
LastK(a, k) ==
    LET n == ArrLen(a)
        from == IF k = 0 THEN 0 ELSE Max(n - k, 0)
    IN  [i \in 0..(n - from - 1) |-> a[from + i]]

\* a[idx] for an index array idx
Gather(a, idx) == [k \in DOMAIN idx |-> a[idx[k]]]

\* seeded fault: the weights divided by the length of the whole dataset
PSampleAllLens(lens, sel) ==
    [i \in DOMAIN sel |-> Rat(lens[sel[i]], ArrSum(lens))]

\* traj_lens[sorted_return_inds] / sum(traj_lens[sorted_return_inds])
PSample(lens, sel) ==
    LET picked == Gather(lens, sel)
    IN  [i \in DOMAIN sel |-> Rat(picked[i], ArrSum(picked))]

\* the loaded dataset is summarised by its trajectories' lengths and returns
InitSelect ==
    /\ pc = "setup"
    /\ mode \in Modes
    /\ trajectories = None
    /\ \E n \in 1..MaxTraj :
          /\ traj_lens \in [0..(n - 1) -> LenValues]
          /\ traj_total_return \in [0..(n - 1) -> ReturnValues]
    /\ pct_traj \in PctValues
    /\ num_timesteps = ArrSum(traj_lens)
    /\ sorted_return_inds = None
    /\ num_trajectories = None
    /\ p_sample = None
    /\ path = None
    /\ dc = None
    /\ batch = None
    /\ NoEval

\* lines 123-139
SelectTrajectories ==
    /\ pc = "setup"
    /\ pc' = "ready"
    /\ num_timesteps' = Budget(pct_traj, num_timesteps)
    /\ \E sorted \in ArgsortResults(traj_total_return) :
          /\ num_trajectories' = NumSelected(traj_lens, sorted, num_timesteps')
          /\ sorted_return_inds' = LastK(sorted, num_trajectories')
    /\ p_sample' = PSample(traj_lens, sorted_return_inds')
    /\ UNCHANGED <<mode, trajectories, traj_lens, traj_total_return, pct_traj,
                   loadVars, batchVars, evalVars>>

NextSelect == SelectTrajectories

SpecSelect == InitSelect /\ [][NextSelect]_vars

(***************************************************************************)
(* get_batch, experiment.py lines 141-235.                                 *)
(***************************************************************************)
scale == 1000            \* hopper

ActionPad == -10

DonePad == 2

TimestepPad == -1

\* the rewards of trajectory j of the datasets given to get_batch
TokenRewards(j, L) == [i \in 0..(L - 1) |-> i + 1 - j]

\* seeded fault: the upper end one too far, as for randint(0, batch_len)
RandIntPastEnd(a, b) == a..(b + 1)

\* random.randint(a, b): both ends included
RandInt(a, b) == a..b

\* min(x+max_len, y)
EndIndex(x, max_len, y) == Min(x + max_len, y)

\* np.arange(a, b)
Arange(a, b) == [k \in 0..(b - a - 1) |-> a + k]

\* np.ones(n)*v, np.zeros(n)
Full(n, v) == [i \in 0..(n - 1) |-> v]

\* seeded fault: the window written at the left end of the row
SliceStartLeft(n, k) == 0

\* the first position of row[-k:] in a row of n slots
SliceStart(n, k) == IF k > 0 THEN Max(n - k, 0) ELSE Min(-k, n)

\* row[-k:] = vals
AssignSuffix(row, k, vals) ==
    LET from == SliceStart(ArrLen(row), k)
    IN  [q \in DOMAIN row |->
            IF q >= from /\ (q - from) \in DOMAIN vals THEN vals[q - from] ELSE row[q]]

\* seeded fault: the whole row marked valid
MaskRowAll(max_len, seq_len) == Full(max_len, TRUE)

\* mask[i,-seq_len:] = np.ones((seq_len,),dtype=np.bool_) on a row of zeros
MaskRow(max_len, seq_len) ==
    AssignSuffix(Full(max_len, FALSE), seq_len, Full(seq_len, TRUE))

\* a bool stored in a float32 array
BoolToFloat(b) == IF b THEN 1 ELSE 0

\* tf.keras.utils.pad_sequences([seq], maxlen, value=value, padding='pre'),
\* with the default truncating='pre'
PadSequence(seq, maxlen, value) ==
    LET n == ArrLen(seq)
    IN  [q \in 0..(maxlen - 1) |->
            IF n >= maxlen THEN seq[n - maxlen + q]
            ELSE IF q < maxlen - n THEN value
            ELSE seq[q - (maxlen - n)]]

\* batch_lens for the trajectory drawn as idx
BatchLen(idx) == ArrLen(trajectories[sorted_return_inds[idx]].rewards)

\* row i of the batch: trajectory index idx of the selection, window start
BatchRow(idx, start, max_len) ==
    LET traj == trajectories[sorted_return_inds[idx]]
        batch_len == BatchLen(idx)
        end == EndIndex(start, max_len, batch_len)
        seq_len == end - start
        t_steps == Arange(start, end)
        padded == PadSequence(t_steps, max_len, TimestepPad)
    IN  [source |-> sorted_return_inds[idx],
         batch_len |-> batch_len,
         start |-> start,
         end |-> end,
         seq_len |-> seq_len,
         t_steps |-> t_steps,
         a |-> AssignSuffix(Full(max_len, ActionPad), seq_len,
                            Gather(traj.actions, t_steps)),
         r |-> AssignSuffix(Full(max_len, 0), seq_len,
                            Gather(traj.rewards, t_steps)),
         d |-> AssignSuffix(Full(max_len, DonePad), seq_len,
                            [k \in DOMAIN t_steps |->
                                BoolToFloat(traj.dones[t_steps[k]])]),
         rtg |-> AssignSuffix(Full(max_len, Rat(0, 1)), seq_len,
                              [k \in DOMAIN t_steps |->
                                  Rat(traj.rtg[t_steps[k]], scale)]),
         timesteps |-> [q \in DOMAIN padded |-> padded[q] + 1],
         mask |-> MaskRow(max_len, seq_len)]

\* the indices np.random.choice(np.arange(num_trajectories), p=p_sample) can draw
SourceChoices == {i \in 0..(num_trajectories - 1) : p_sample[i][1] > 0}

\* a dataset after the load loop (normal mode)
InitBatch ==
    /\ pc = "setup"
    /\ mode = "normal"
    /\ \E n \in 1..MaxBatchTraj :
          \E lens \in [0..(n - 1) -> 1..MaxTrajLen] :
             trajectories =
                 [j \in 0..(n - 1) |->
                     LoadedPath(RawPath(j, TokenRewards(j, lens[j])), mode)]
    /\ traj_lens = [j \in DOMAIN trajectories |-> TrajLen(trajectories[j])]
    /\ traj_total_return =
           [j \in DOMAIN trajectories |-> TotalReturn(trajectories[j])]
    /\ pct_traj \in PctValues
    /\ num_timesteps = ArrSum(traj_lens)
    /\ sorted_return_inds = None
    /\ num_trajectories = None
    /\ p_sample = None
    /\ path = None
    /\ dc = None
    /\ batch = None
    /\ NoEval

\* one call get_batch(batch_size, max_len)
GetBatch ==
    /\ pc = "ready"
    /\ pc' = "batched"
    /\ \E batch_size \in 1..MaxBatch, max_len \in 1..MaxK :
          \E batch_source_indices \in [0..(batch_size - 1) -> SourceChoices] :
             \E start_indices \in
                   [0..(batch_size - 1) -> 0..(MaxTrajLen - 1)] :
                /\ \A i \in 0..(batch_size - 1) :
                      start_indices[i] \in
                          RandInt(0, BatchLen(batch_source_indices[i]) - 1)
                /\ batch' =
                      [batch_size |-> batch_size,
                       max_len |-> max_len,
                       rows |-> [i \in 0..(batch_size - 1) |->
                                    BatchRow(batch_source_indices[i],
                                             start_indices[i], max_len)]]
    /\ UNCHANGED <<mode, selectVars, loadVars, evalVars>>

NextBatch == SelectTrajectories \/ GetBatch

SpecBatch == InitBatch /\ [][NextBatch]_vars

(***************************************************************************)
(* eval_ep_parallel, experiment.py lines 238-312.                          *)
(***************************************************************************)
\* the target the run is conditioned on: the first of hopper's env_targets
EvalTargets == {3600}

Episodes == 0..(num_eval_episodes - 1)

\* what one env.step can return (observation, reward, step_type == LAST);
\* the observation is opaque
EnvOutcomes ==
    {[observation |-> "obs", reward |-> 1, last |-> FALSE],
     [observation |-> "obs", reward |-> 2, last |-> FALSE],
     [observation |-> "obs", reward |-> 2, last |-> TRUE]}

\* the action the model predicts is opaque and differs from the placeholder
ActionValues == {7}

\* seeded fault: the previous flag left out of the reduction
StickyDoneNewOnly(prev, new) == new

\* tf.reduce_any(tf.stack([dones[:,-1], new_dones], axis=1), axis=1)
StickyDone(prev, new) == prev \/ new

\* tf.reduce_all(tf.reduce_any(dones, axis=-1))
AllDone(d) == \A e \in DOMAIN d : d[e]

\* seeded fault: the target decays in every mode
PredReturnAlwaysDecay(m, prev, reward) == RatSub(prev, Rat(reward, scale))

\* lines 291-294
PredReturn(m, prev, reward) ==
    IF m # "delayed" THEN RatSub(prev, Rat(reward, scale)) ELSE prev

\* tf.where(new_dones, 0., new_rewards)
ReturnGain(done, reward) == IF done THEN 0 ELSE reward

\* tf.where(new_dones, 0, 1)
LengthGain(done) == IF done THEN 0 ELSE 1

\* seeded fault: the placeholder slot is not popped
ButLastKeepsAll(q) == q

\* x[:-1] of a sequence
ButLast(q) == SubSeq(q, 1, Len(q) - 1)

\* seeded fault: no early exit
LoopEndsNoBreak(done, steps) == steps = max_ep_len

\* the loop is left by "if done: break" or when range(max_ep_len) is used up
LoopEnds(done, steps) == done \/ steps = max_ep_len

\* lines 241-262
InitEval ==
    /\ pc = "loop"
    /\ mode \in Modes
    /\ target_rew \in EvalTargets
    /\ dones = [e \in Episodes |-> FALSE]
    /\ states = [e \in Episodes |-> <<"obs">>]
    /\ actions = [e \in Episodes |-> <<>>]
    /\ rewards = [e \in Episodes |-> <<>>]
    /\ target_returns = [e \in Episodes |-> <<Rat(target_rew, scale)>>]
    /\ timesteps = <<1>>
    /\ episode_return = [e \in Episodes |-> 0]
    /\ episode_length = [e \in Episodes |-> 0]
    /\ t = 0
    /\ step_last = [e \in Episodes |-> <<>>]
    /\ model_in = None
    /\ result = None
    /\ path = None
    /\ dc = None
    /\ batch = None
    /\ NoSelection

\* lines 306-311: the means; the standard deviations are not modelled
EvalResult(ret, len) ==
    [return_mean |-> Rat(SumOver(ret, Episodes), num_eval_episodes),
     length_mean |-> Rat(SumOver(len, Episodes), num_eval_episodes)]

\* one iteration of "for t in range(max_ep_len)", lines 263-303; the
\* iteration that leaves the loop returns the result, lines 306-311
EvalStep ==
    /\ pc = "loop"
    /\ \E new_actions \in [Episodes -> ActionValues],
          ts_s \in [Episodes -> EnvOutcomes] :
          LET padded_actions == [e \in Episodes |-> Append(actions[e], 0)]
              padded_rewards == [e \in Episodes |-> Append(rewards[e], 0)]
              new_dones == [e \in Episodes |-> StickyDone(dones[e], ts_s[e].last)]
              done == AllDone(new_dones)
          IN  /\ model_in' = [states |-> states,
                              actions |-> padded_actions,
                              rewards |-> padded_rewards,
                              target_returns |-> target_returns,
                              timesteps |-> timesteps]
              /\ actions' = [e \in Episodes |->
                                Append(ButLast(padded_actions[e]), new_actions[e])]
              /\ dones' = new_dones
              /\ states' = [e \in Episodes |->
                               Append(states[e], ts_s[e].observation)]
              /\ rewards' = [e \in Episodes |->
                                Append(ButLast(padded_rewards[e]), ts_s[e].reward)]
              /\ target_returns' =
                     [e \in Episodes |->
                         Append(target_returns[e],
                                PredReturn(mode,
                                           target_returns[e][Len(target_returns[e])],
                                           ts_s[e].reward))]
              /\ timesteps' = Append(timesteps, t + 2)
              /\ episode_return' =
                     [e \in Episodes |->
                         episode_return[e] + ReturnGain(new_dones[e], ts_s[e].reward)]
              /\ episode_length' =
                     [e \in Episodes |->
                         episode_length[e] + LengthGain(new_dones[e])]
              /\ step_last' = [e \in Episodes |-> Append(step_last[e], ts_s[e].last)]
              /\ t' = t + 1
              /\ IF LoopEnds(done, t + 1)
                 THEN /\ pc' = "returned"
                      /\ result' = EvalResult(episode_return', episode_length')
                 ELSE /\ pc' = "loop"
                      /\ result' = result
    /\ UNCHANGED <<mode, target_rew, loadVars, selectVars, batchVars>>

NextEval == EvalStep

SpecEval == InitEval /\ [][NextEval]_vars

(***************************************************************************)
(* Properties of the load loop (SpecLoad).                                 *)
(***************************************************************************)
\* x[k] + ... + x[L-1]
SuffixSum(x, k) == ArrSum(x) - ArrSumTo(x, k)

\* C6: discount_cumsum(x, gamma) has the length of x, its last entry is the
\* last entry of x and every earlier entry is x[k] + gamma * out[k+1]; for
\* gamma = 1 entry k is the sum of x[k..L-1] (rewards [1,2,3] give [6,5,3])
\* and entry 0 of a loaded path's return-to-go is its total return.
C6_DiscountCumsum ==
    pc \in {"called", "loaded"} =>
        LET x == dc.x
            out == dc.out
            L == ArrLen(x)
        IN  /\ DOMAIN out = 0..(L - 1)
            /\ out[L - 1] = x[L - 1]
            /\ \A k \in 0..(L - 2) : out[k] = x[k] + dc.gamma * out[k + 1]
            /\ dc.gamma = 1 => \A k \in 0..(L - 1) : out[k] = SuffixSum(x, k)
            /\ (dc.gamma = 1 /\ x = Arr(<<1, 2, 3>>)) => out = Arr(<<6, 5, 3>>)
            /\ pc = "loaded" =>
                  /\ path.loaded.rtg = out
                  /\ path.loaded.rtg[0] = path.total_return

C6_Witness ==
    /\ pc = "called"
    /\ dc.gamma = 1
    /\ dc.x = Arr(<<1, 2, 3>>)
    /\ dc.out = Arr(<<6, 5, 3>>)

\* C7: in delayed mode the loaded rewards are 0 at every step but the last
\* and the sum of the raw rewards at the last step ([1,2,3] becomes
\* [0,0,6]); the total return is the raw series' sum, so the transform
\* leaves it unchanged; the return-to-go, computed from the transformed
\* series, is that sum at every step ([6,6,6]).
C7_DelayedTransform ==
    (pc = "loaded" /\ mode = "delayed") =>
        LET raw == path.raw
            L == ArrLen(raw)
            p == path.loaded
        IN  /\ DOMAIN p.rewards = 0..(L - 1)
            /\ \A k \in 0..(L - 2) : p.rewards[k] = 0
            /\ p.rewards[L - 1] = ArrSum(raw)
            /\ path.total_return = ArrSum(raw)
            /\ DOMAIN p.rtg = 0..(L - 1)
            /\ \A k \in 0..(L - 1) : p.rtg[k] = ArrSum(raw)
            /\ raw = Arr(<<1, 2, 3>>) =>
                  /\ p.rewards = Arr(<<0, 0, 6>>)
                  /\ p.rtg = Arr(<<6, 6, 6>>)

C7_Witness ==
    /\ pc = "loaded"
    /\ mode = "delayed"
    /\ path.raw = Arr(<<1, 2, 3>>)
    /\ path.loaded.rewards = Arr(<<0, 0, 6>>)
    /\ path.loaded.rtg = Arr(<<6, 6, 6>>)

(***************************************************************************)
(* Properties of the selection (SpecSelect).                               *)
(***************************************************************************)
IsBest(j) == \A k \in DOMAIN traj_total_return :
                 traj_total_return[k] <= traj_total_return[j]

\* the trajectories the selection holds
Selected == Range(sorted_return_inds)

\* C4: the selection is non-empty, contains a trajectory of maximum total
\* return, and its cumulative length is at most pct_traj * total_timesteps
\* or is the length of the best trajectory alone; with A (return 10,
\* length 5), B (return 5, length 5) and pct_traj = 0.5 it is exactly {A}.
C4_Selection ==
    pc = "ready" =>
        LET total == ArrSum(traj_lens)
            cum == SumOver(traj_lens, Selected)
        IN  /\ Selected # {}
            /\ Selected \subseteq DOMAIN traj_lens
            /\ \E j \in Selected : IsBest(j)
            /\ \/ cum * pct_traj[2] <= pct_traj[1] * total
               \/ \E j \in Selected : IsBest(j) /\ Selected = {j} /\ cum = traj_lens[j]
            /\ (/\ traj_lens = Arr(<<5, 5>>)
                /\ traj_total_return = Arr(<<10, 5>>)
                /\ pct_traj = <<1, 2>>) => Selected = {0}

C4_Witness ==
    /\ pc = "ready"
    /\ traj_lens = Arr(<<5, 5>>)
    /\ traj_total_return = Arr(<<10, 5>>)
    /\ pct_traj = <<1, 2>>
    /\ sorted_return_inds = Arr(<<0>>)

RatAdd(p, q) ==
    IF p[2] = q[2] THEN <<p[1] + q[1], p[2]>>
    ELSE <<p[1] * q[2] + q[1] * p[2], p[2] * q[2]>>

RECURSIVE RatSumTo(_, _)
RatSumTo(w, n) == IF n <= 0 THEN <<0, 1>> ELSE RatAdd(RatSumTo(w, n - 1), w[n - 1])

\* C5: p_sample has one entry per selected trajectory, in the order of
\* sorted_return_inds; entry i is the length of trajectory
\* sorted_return_inds[i] over the summed length of the selected
\* trajectories; every entry is positive and the entries sum to 1.
C5_SamplingWeights ==
    pc = "ready" =>
        /\ DOMAIN p_sample = 0..(num_trajectories - 1)
        /\ DOMAIN sorted_return_inds = DOMAIN p_sample
        /\ \A i \in DOMAIN p_sample :
              /\ RatEq(p_sample[i],
                       Rat(traj_lens[sorted_return_inds[i]],
                           SumOver(traj_lens, Selected)))
              /\ p_sample[i][1] > 0
              /\ p_sample[i][2] > 0
        /\ RatEq(RatSumTo(p_sample, ArrLen(p_sample)), <<1, 1>>)

C5_Witness ==
    /\ pc = "ready"
    /\ num_trajectories = 2
    /\ ArrLen(traj_lens) = 3
    /\ traj_lens[sorted_return_inds[0]] = 1
    /\ traj_lens[sorted_return_inds[1]] = 2
    /\ p_sample = Arr(<<Rat(1, 3), Rat(2, 3)>>)

\* the m highest-ranked trajectories of the ascending ranking rank
TopOf(rank, m) ==
    LET n == ArrLen(rank)
    IN  {rank[i] : i \in (n - m)..(n - 1)}

\* C12: the selection is the k highest-ranked trajectories of an ascending
\* ranking by total return, in that order; each trajectory added after the
\* best one kept the cumulative length within
\* max(floor(pct_traj * total_timesteps), 1); the walk stopped at the first
\* trajectory that would exceed it, so no trajectory is selected while a
\* higher-ranked one is left out and none below the stop is added.
C12_SelectionWalk ==
    pc = "ready" =>
        LET n == ArrLen(traj_lens)
            total == ArrSum(traj_lens)
            floor == (pct_traj[1] * total) \div pct_traj[2]
            budget == IF floor >= 1 THEN floor ELSE 1
            k == num_trajectories
        IN  /\ num_timesteps = budget
            /\ k \in 1..n
            /\ Cardinality(Selected) = k
            /\ \E rank \in ArgsortResults(traj_total_return) :
                  /\ sorted_return_inds = [i \in 0..(k - 1) |-> rank[n - k + i]]
                  /\ \A m \in 2..k : SumOver(traj_lens, TopOf(rank, m)) <= budget
                  /\ k < n =>
                        SumOver(traj_lens, TopOf(rank, k))
                            + traj_lens[rank[n - k - 1]] > budget
            /\ \A j \in Selected :
                  \A h \in (DOMAIN traj_lens) \ Selected :
                      traj_total_return[h] <= traj_total_return[j]

\* the second-best trajectory exceeds the budget and the third would fit
C12_Witness ==
    /\ pc = "ready"
    /\ traj_lens = Arr(<<2, 5, 1>>)
    /\ traj_total_return = Arr(<<10, 5, 0>>)
    /\ pct_traj = <<1, 2>>
    /\ num_timesteps = 4
    /\ sorted_return_inds = Arr(<<0>>)

(***************************************************************************)
(* Properties of get_batch (SpecBatch).                                    *)
(***************************************************************************)
Rows == DOMAIN batch.rows

MaskCount(mask) == Cardinality({q \in DOMAIN mask : mask[q]})

\* C2 as stated: every row has min(max_len, L) mask-true positions, L the
\* length of the row's trajectory, whatever the start offset.
C2_MaskCountIsMinOfLength ==
    pc = "batched" =>
        \A i \in Rows :
            MaskCount(batch.rows[i].mask) =
                Min(batch.max_len, traj_lens[batch.rows[i].source])

\* C2, amended: every row has min(max_len, L - start) mask-true positions,
\* L the length of the row's trajectory and start the offset drawn for it.
C2_MaskCount ==
    pc = "batched" =>
        \A i \in Rows :
            LET row == batch.rows[i]
            IN  /\ row.start \in 0..(traj_lens[row.source] - 1)
                /\ MaskCount(row.mask) =
                       Min(batch.max_len, traj_lens[row.source] - row.start)

C2_Witness ==
    /\ pc = "batched"
    /\ \E i \in Rows :
          LET row == batch.rows[i]
          IN  /\ row.start > 0
              /\ traj_lens[row.source] >= batch.max_len
              /\ traj_lens[row.source] - row.start < batch.max_len
              /\ MaskCount(row.mask) = traj_lens[row.source] - row.start

\* C3: a row is a pad prefix of max_len - (end - start) slots followed by
\* the window's end - start slots: the mask is false on the prefix and true
\* on the suffix; on the prefix actions are -10, dones 2 and timesteps 0; on
\* the suffix the timesteps are start+1, ..., end and actions, dones and
\* rewards are the trajectory's values at start, ..., end-1.
C3_RowLayout ==
    pc = "batched" =>
        \A i \in Rows :
            LET row == batch.rows[i]
                traj == trajectories[row.source]
                pad == batch.max_len - (row.end - row.start)
                slots == 0..(batch.max_len - 1)
            IN  /\ row.end = Min(row.start + batch.max_len, traj_lens[row.source])
                /\ pad \in 0..(batch.max_len - 1)
                /\ DOMAIN row.mask = slots
                /\ DOMAIN row.a = slots
                /\ DOMAIN row.d = slots
                /\ DOMAIN row.r = slots
                /\ DOMAIN row.timesteps = slots
                /\ \A q \in slots :
                      IF q < pad
                      THEN /\ row.mask[q] = FALSE
                           /\ row.a[q] = -10
                           /\ row.d[q] = 2
                           /\ row.timesteps[q] = 0
                      ELSE /\ row.mask[q] = TRUE
                           /\ row.timesteps[q] = row.start + (q - pad) + 1
                           /\ row.timesteps[q] > 0
                           /\ row.a[q] = traj.actions[row.start + (q - pad)]
                           /\ row.d[q] = BoolToFloat(traj.dones[row.start + (q - pad)])
                           /\ row.r[q] = traj.rewards[row.start + (q - pad)]
                /\ row.timesteps[batch.max_len - 1] = row.end

C3_Witness ==
    /\ pc = "batched"
    /\ batch.max_len = 3
    /\ \E i \in Rows :
          LET row == batch.rows[i]
          IN  /\ row.start = 1
              /\ row.end = 3
              /\ row.mask = Arr(<<FALSE, TRUE, TRUE>>)
              /\ row.timesteps = Arr(<<0, 2, 3>>)
              /\ row.a[0] = -10
              /\ row.d = Arr(<<2, 0, 1>>)

\* C11: for every row the start offset is in 0..L-1, the window [start, end)
\* has end = min(start + max_len, L), 1 <= end - start <= max_len and
\* end <= L; every index read from the trajectory is in 0..L-1; the slice of
\* the last end - start slots is never the whole row by a zero length.
C11_WindowInBounds ==
    pc = "batched" =>
        \A i \in Rows :
            LET row == batch.rows[i]
                traj == trajectories[row.source]
                L == traj_lens[row.source]
            IN  /\ L >= 1
                /\ row.batch_len = L
                /\ row.start \in 0..(L - 1)
                /\ row.end = Min(row.start + batch.max_len, L)
                /\ row.end <= L
                /\ row.seq_len = row.end - row.start
                /\ row.seq_len \in 1..batch.max_len
                /\ ArrLen(row.t_steps) = row.seq_len
                /\ \A k \in DOMAIN row.t_steps :
                      /\ row.t_steps[k] \in 0..(L - 1)
                      /\ row.t_steps[k] \in DOMAIN traj.rewards
                      /\ row.t_steps[k] \in DOMAIN traj.actions
                      /\ row.t_steps[k] \in DOMAIN traj.dones
                      /\ row.t_steps[k] \in DOMAIN traj.rtg
                /\ SliceStart(batch.max_len, row.seq_len) =
                       batch.max_len - row.seq_len

\* the last offset of a trajectory longer than max_len is drawn
C11_Witness ==
    /\ pc = "batched"
    /\ batch.max_len = 2
    /\ \E i \in Rows :
          LET row == batch.rows[i]
          IN  /\ traj_lens[row.source] = 3
              /\ row.start = 2
              /\ row.end = 3
              /\ row.seq_len = 1
              /\ row.t_steps = Arr(<<2>>)

(***************************************************************************)
(* Properties of eval_ep_parallel (SpecEval).                              *)
(***************************************************************************)
\* the step on which episode e's environment first signalled terminal, 0 if
\* it has not
FirstLast(e) ==
    IF \E k \in 1..Len(step_last[e]) : step_last[e][k]
    THEN CHOOSE k \in 1..Len(step_last[e]) :
             /\ step_last[e][k]
             /\ \A m \in 1..(k - 1) : ~step_last[e][m]
    ELSE 0

RECURSIVE SeqSumTo(_, _)
SeqSumTo(q, n) == IF n <= 0 THEN 0 ELSE SeqSumTo(q, n - 1) + q[n]

\* C1 as stated: an episode whose environment first signals terminal on its
\* n-th step has length n and return the sum of its first n rewards.
C1_TerminalStepCounts ==
    \A e \in Episodes :
        FirstLast(e) # 0 =>
            /\ episode_length[e] = FirstLast(e)
            /\ episode_return[e] = SeqSumTo(rewards[e], FirstLast(e))

\* C8: once an episode's done flag is true it stays true, and its
\* accumulated return and length no longer change.
C8_StickyDone ==
    [][\A e \in Episodes :
          dones[e] => /\ dones'[e]
                      /\ episode_return'[e] = episode_return[e]
                      /\ episode_length'[e] = episode_length[e]]_vars

C8_Witness ==
    \E e, o \in Episodes :
        /\ dones[e]
        /\ FirstLast(e) = 1
        /\ t = 3
        /\ ~step_last[e][2]
        /\ ~step_last[e][3]
        /\ FirstLast(o) = 3

\* C9: the loop runs at most max_ep_len steps and never blocks; while it
\* runs, some episode is not done and the cap is not reached; it has stopped
\* either at the first step that left every episode done or at the cap.
C9_LoopTermination ==
    /\ t \in 0..max_ep_len
    /\ Len(timesteps) = t + 1
    /\ pc = "returned" \/ ENABLED EvalStep
    /\ pc = "loop" => (t < max_ep_len /\ ~AllDone(dones))
    /\ pc = "returned" =>
          /\ t >= 1
          /\ AllDone(dones) \/ t = max_ep_len
          /\ AllDone(dones) => \E e \in Episodes : FirstLast(e) = t

C9_Witness ==
    /\ pc = "returned"
    /\ t = 2
    /\ t < max_ep_len
    /\ AllDone(dones)
    /\ \E e \in Episodes : FirstLast(e) = 1

\* C10: every episode's first target is target_return / scale; each step
\* appends the previous target minus the step's reward over scale in normal
\* mode and the previous target in delayed mode, done or not; so the last
\* target is (target_return - sum of rewards) / scale, or in delayed mode
\* target_return / scale.
C10_TargetReturns ==
    \A e \in Episodes :
        LET tr == target_returns[e]
        IN  /\ Len(tr) = t + 1
            /\ Len(rewards[e]) = t
            /\ RatEq(tr[1], Rat(target_rew, scale))
            /\ \A k \in 1..t :
                  IF mode = "delayed"
                  THEN RatEq(tr[k + 1], tr[k])
                  ELSE RatEq(tr[k + 1], RatSub(tr[k], Rat(rewards[e][k], scale)))
            /\ IF mode = "delayed"
               THEN RatEq(tr[t + 1], Rat(target_rew, scale))
               ELSE RatEq(tr[t + 1],
                          Rat(target_rew - SeqSumTo(rewards[e], t), scale))

C10_Witness ==
    /\ mode = "normal"
    /\ t = 3
    /\ \E e \in Episodes :
          /\ FirstLast(e) = 1
          /\ rewards[e] = <<2, 1, 2>>
          /\ target_returns[e] =
                 <<Rat(3600, 1000), Rat(3598, 1000), Rat(3597, 1000), Rat(3595, 1000)>>

\* C13: at the model query of step k every episode's state, action, reward
\* and return-to-go history has length k, the last action and reward slots
\* are zero placeholders and the shared timestep sequence is 1, ..., k; after
\* the step the state, return-to-go and timestep sequences have length k+1
\* and the action and reward histories length k, their last slot holding the
\* predicted action and the realized reward, the earlier slots unchanged.
C13_HistoryShapes ==
    t >= 1 =>
        /\ Len(model_in.timesteps) = t
        /\ model_in.timesteps = [k \in 1..t |-> k]
        /\ Len(timesteps) = t + 1
        /\ timesteps = [k \in 1..(t + 1) |-> k]
        /\ \A e \in Episodes :
              /\ Len(model_in.states[e]) = t
              /\ Len(model_in.actions[e]) = t
              /\ Len(model_in.rewards[e]) = t
              /\ Len(model_in.target_returns[e]) = t
              /\ model_in.actions[e][t] = 0
              /\ model_in.rewards[e][t] = 0
              /\ Len(states[e]) = t + 1
              /\ Len(target_returns[e]) = t + 1
              /\ Len(actions[e]) = t
              /\ Len(rewards[e]) = t
              /\ actions[e][t] \in ActionValues
              /\ actions[e][t] # 0
              /\ rewards[e][t] \in {o.reward : o \in EnvOutcomes}
              /\ \A k \in 1..(t - 1) :
                    /\ actions[e][k] = model_in.actions[e][k]
                    /\ rewards[e][k] = model_in.rewards[e][k]
              /\ \A k \in 1..t :
                    /\ states[e][k] = model_in.states[e][k]
                    /\ target_returns[e][k] = model_in.target_returns[e][k]

C13_Witness ==
    /\ t = 3
    /\ model_in.timesteps = <<1, 2, 3>>
    /\ timesteps = <<1, 2, 3, 4>>
    /\ \E e \in Episodes :
          /\ model_in.actions[e] = <<7, 7, 0>>
          /\ model_in.rewards[e] = <<1, 2, 0>>
          /\ actions[e] = <<7, 7, 7>>
          /\ rewards[e] = <<1, 2, 1>>
          /\ Len(model_in.states[e]) = 3
          /\ Len(states[e]) = 4

====
